---- MODULE Spec2Model ----
(***************************************************************************)
(* Stockflow: the two request handlers of app.py over the schema of        *)
(* models.py.                                                              *)
(*                                                                         *)
(*   create_product        POST /api/products                              *)
(*   get_low_stock_alerts  GET  /api/companies/<id>/alerts/low-stock       *)
(*                                                                         *)
(* The committed tables are the variables products, inventory and ledger.  *)
(* Every request runs in its own db.session: rows it has flushed but not   *)
(* committed live in req[r].pending and are seen by that request alone.    *)
(* The constraints declared in models.py (primary keys, unique, nullable,  *)
(* foreign keys) are enforced by the database when a row is inserted.      *)
(* Time is counted in whole days.                                          *)
(***************************************************************************)
EXTENDS Integers, Sequences, FiniteSets, TLC

VARIABLES products, inventory, ledger, now, nextId, req, lastQuery, prevQuery

vars == <<products, inventory, ledger, now, nextId, req, lastQuery, prevQuery>>

(* ------------------------------ bounds --------------------------------- *)

\* concurrent create_product requests
MaxRequests == 2
\* rows appended to inventory_transactions
MaxTx == 2
\* the latest query is made WindowDays + MaxAge days after the first
MaxAge == 1

(* ------------------------- program constants --------------------------- *)

WindowDays == 30
NoRiskDays == 999
DefaultThreshold == 10
DefaultCompany == 1
DefaultQuantity == 0

Requests == 1..MaxRequests

(* --------------------------- JSON values ------------------------------- *)

\* a key that is not in the request body
Absent == [kind |-> "absent"]
JNull == [kind |-> "null"]
JInt(n) == [kind |-> "int", n |-> n]
\* a JSON string; numeric fields carry it as a sequence of characters
JStr(s) == [kind |-> "str", s |-> s]

Digits == {"0", "1", "2", "3", "4", "5", "6", "7", "8", "9"}

DigitVal(c) ==
    CASE c = "0" -> 0 [] c = "1" -> 1 [] c = "2" -> 2 [] c = "3" -> 3
      [] c = "4" -> 4 [] c = "5" -> 5 [] c = "6" -> 6 [] c = "7" -> 7
      [] c = "8" -> 8 [] c = "9" -> 9

AllDigits(s) == Len(s) > 0 /\ \A i \in 1..Len(s) : s[i] \in Digits

RECURSIVE DigitsVal(_)
DigitsVal(s) ==
    IF Len(s) = 0 THEN 0
    ELSE 10 * DigitsVal(SubSeq(s, 1, Len(s) - 1)) + DigitVal(s[Len(s)])

Signed(s) == Len(s) > 0 /\ s[1] \in {"-", "+"}
Unsigned(s) == IF Signed(s) THEN Tail(s) ELSE s
SignOf(s) == IF Len(s) > 0 /\ s[1] = "-" THEN -1 ELSE 1

\* int(x): an int is itself, a string is [sign] digits or ValueError, None is
\* a TypeError
PyInt(x) ==
    CASE x.kind = "int" -> [exc |-> "none", v |-> x.n]
      [] x.kind = "str" ->
            IF AllDigits(Unsigned(x.s))
            THEN [exc |-> "none", v |-> SignOf(x.s) * DigitsVal(Unsigned(x.s))]
            ELSE [exc |-> "ValueError", v |-> 0]
      [] OTHER -> [exc |-> "TypeError", v |-> 0]

\* position of the decimal point in s, 0 when there is none
PointAt(s) ==
    IF \E i \in 1..Len(s) : s[i] = "."
    THEN CHOOSE i \in 1..Len(s) : s[i] = "." /\ \A j \in 1..(i - 1) : s[j] # "."
    ELSE 0

\* the hundredths of a fraction part (the column is Numeric(12, 2))
Hundredths(f) ==
    IF Len(f) = 0 THEN 0
    ELSE IF Len(f) = 1 THEN 10 * DigitVal(f[1])
    ELSE 10 * DigitVal(f[1]) + DigitVal(f[2])

\* Decimal(str): [sign] digits [. digits], or InvalidOperation; the value is
\* kept in hundredths
PyDecimalOfText(s) ==
    LET u == Unsigned(s)
        p == PointAt(u)
        ip == IF p = 0 THEN u ELSE SubSeq(u, 1, p - 1)
        fp == IF p = 0 THEN << >> ELSE SubSeq(u, p + 1, Len(u))
        wellFormed ==
            /\ Len(ip) + Len(fp) > 0
            /\ \A i \in 1..Len(ip) : ip[i] \in Digits
            /\ \A i \in 1..Len(fp) : fp[i] \in Digits
    IN  IF wellFormed
        THEN [exc |-> "none",
              v |-> SignOf(s) * (100 * DigitsVal(ip) + Hundredths(fp))]
        ELSE [exc |-> "InvalidOperation", v |-> 0]

RECURSIVE NatText(_)
NatText(n) ==
    LET d == <<"0", "1", "2", "3", "4", "5", "6", "7", "8", "9">>
    IN  IF n < 10 THEN <<d[n + 1]>> ELSE Append(NatText(n \div 10), d[(n % 10) + 1])

\* str(x): None prints as "None"
PyStr(x) ==
    CASE x.kind = "int" -> IF x.n < 0 THEN <<"-">> \o NatText(-x.n) ELSE NatText(x.n)
      [] x.kind = "str" -> x.s
      [] OTHER -> <<"N", "o", "n", "e">>

PyDecimal(x) == PyDecimalOfText(PyStr(x))

(* --------------------------- static tables ----------------------------- *)

Companies == {[id |-> 1, name |-> "Acme"], [id |-> 2, name |-> "Globex"]}

Warehouses ==
    {[id |-> 1, company_id |-> 1, name |-> "North"],
     [id |-> 2, company_id |-> 2, name |-> "South"]}

Suppliers ==
    {[id |-> 1, company_id |-> 1, name |-> "Parts Ltd", contact_email |-> "parts@example.com"]}

\* NULL in an integer column
NullId == 0

(* ------------------------- request bodies ------------------------------ *)

RequiredFields == {"name", "sku", "price", "warehouse_id", "initial_quantity"}

Body(name, sku, price, wh, qty, company) ==
    [name |-> name, sku |-> sku, price |-> price, warehouse_id |-> wh,
     initial_quantity |-> qty, company_id |-> company]

GoodBody(sku) ==
    Body(JStr("Widget"), JStr(sku), JStr(<<"9", ".", "9", "9">>), JInt(1), JInt(5), Absent)

ValidBodies ==
    {GoodBody("A"), GoodBody("B"),
     [GoodBody("A") EXCEPT !.initial_quantity = JStr(<<"3", "0">>), !.price = JInt(10)],
     [GoodBody("B") EXCEPT !.company_id = JInt(2), !.warehouse_id = JInt(2)],
     [GoodBody("A") EXCEPT !.warehouse_id = JInt(9)],
     [GoodBody("B") EXCEPT !.company_id = JInt(7)],
     [GoodBody("B") EXCEPT !.name = JNull]}

MissingBodies == {[GoodBody("A") EXCEPT ![f] = Absent] : f \in RequiredFields}

BadNumberBodies ==
    {[GoodBody("A") EXCEPT !.price = JStr(<<"-", "1">>)],
     [GoodBody("A") EXCEPT !.price = JStr(<<"a", "b", "c">>)],
     [GoodBody("A") EXCEPT !.price = JNull],
     [GoodBody("A") EXCEPT !.initial_quantity = JInt(-1)],
     [GoodBody("A") EXCEPT !.initial_quantity = JStr(<<"1", ".", "5">>)],
     [GoodBody("A") EXCEPT !.initial_quantity = JNull],
     [GoodBody("A") EXCEPT !.price = JNull, !.initial_quantity = JNull]}

Bodies == ValidBodies \cup MissingBodies \cup BadNumberBodies

NoBody == Body(Absent, Absent, Absent, Absent, Absent, Absent)

(* ------------------------------ sessions ------------------------------- *)

\* the alerts request: a session that never holds pending rows
Reader == 0

PendingOf(v) == IF v \in Requests THEN req[v].pending ELSE {}

\* READ UNCOMMITTED: every session sees every other session's flushed rows
VisibleProductsDirty(v) == products \cup UNION {req[r].pending : r \in Requests}

\* the Product rows a query of session v reads: the committed table and the
\* rows v itself has flushed
VisibleProducts(v) == products \cup PendingOf(v)

VisibleInventory(v) == inventory

NoQuery == [valid |-> FALSE, company |-> NullId, at |-> NullId, alerts |-> {}, total_alerts |-> NullId]

(* --------------------------- create_product ---------------------------- *)

\* lines 17-27: 0 when the body passes validation, else the status returned.
\* int(None) raises TypeError, which neither except clause names: the
\* exception leaves the handler and Flask answers 500.
ValidateStatus(b) ==
    LET price == PyDecimal(b.price)
        initial_qty == PyInt(b.initial_quantity)
    IN  IF \E f \in RequiredFields : b[f] = Absent THEN 400
        ELSE IF price.exc = "InvalidOperation" THEN 400
        ELSE IF initial_qty.exc = "ValueError" THEN 400
        ELSE IF initial_qty.exc = "TypeError" THEN 500
        ELSE IF price.v < 0 \/ initial_qty.v < 0 THEN 400
        ELSE 0

SkuExistsNever(r, sku) == FALSE

\* line 31: Product.query.filter_by(sku=...).first()
SkuExists(r, sku) == \E p \in VisibleProducts(r) : p.sku = sku

CompanyOf(b) == IF b.company_id = Absent THEN DefaultCompany ELSE b.company_id.n

\* lines 34-39
NewProduct(r) ==
    LET b == req[r].body
    IN  [id |-> nextId,
         company_id |-> CompanyOf(b),
         name |-> IF b.name.kind = "str" THEN b.name.s ELSE "",
         sku |-> b.sku.s,
         price |-> PyDecimal(b.price).v,
         low_stock_threshold |-> DefaultThreshold,
         primary_supplier_id |-> NullId]

SkuUniqueUnchecked(p) == TRUE

\* unique=True on Product.sku
SkuUnique(p) == \A q \in products : q.sku # p.sku

\* the INSERT of line 41: nullable=False on name, the foreign key to
\* companies, the unique index on sku
ProductInsertOk(r, p) ==
    /\ req[r].body.name.kind = "str"
    /\ \E c \in Companies : c.id = p.company_id
    /\ SkuUnique(p)

\* an uncommitted row with the same sku in another transaction: the INSERT
\* waits for that transaction to end
InsertWaits(r) ==
    \E r2 \in Requests \ {r} : \E q \in req[r2].pending : q.sku = req[r].body.sku.s

NewInventoryDefaultQuantity(r) ==
    [product_id |-> req[r].pid,
     warehouse_id |-> req[r].body.warehouse_id.n,
     quantity |-> DefaultQuantity]

\* lines 43-47
NewInventory(r) ==
    [product_id |-> req[r].pid,
     warehouse_id |-> req[r].body.warehouse_id.n,
     quantity |-> PyInt(req[r].body.initial_quantity).v]

\* the INSERT flushed by line 49: the foreign keys to products and
\* warehouses, the composite primary key
InventoryInsertOk(r, i) ==
    /\ \E p \in VisibleProducts(r) : p.id = i.product_id
    /\ \E w \in Warehouses : w.id = i.warehouse_id
    /\ \A j \in VisibleInventory(r) :
          ~(j.product_id = i.product_id /\ j.warehouse_id = i.warehouse_id)

RollbackKeepsFlushed(r) == products \cup req[r].pending

\* line 54: the Product table after db.session.rollback()
RollbackProducts(r) == products

Respond(r, status) ==
    [req[r] EXCEPT !.pc = "done", !.status = status, !.pending = {}]

\* lines 15-32: validation and the SKU check
CreateProductBegin(r, b) ==
    /\ req[r].pc = "idle"
    /\ LET received == [req EXCEPT ![r].body = b]
           status == ValidateStatus(b)
       IN  req' = IF status # 0
                  THEN [received EXCEPT ![r].pc = "done", ![r].status = status]
                  ELSE IF SkuExists(r, b.sku.s)
                  THEN [received EXCEPT ![r].pc = "done", ![r].status = 409]
                  ELSE [received EXCEPT ![r].pc = "checked"]
    /\ UNCHANGED <<products, inventory, ledger, now, nextId, lastQuery, prevQuery>>

\* lines 34-41, and lines 53-55 when the INSERT fails
CreateProductFlush(r) ==
    /\ req[r].pc = "checked"
    /\ ~InsertWaits(r)
    /\ LET p == NewProduct(r)
       IN  IF ProductInsertOk(r, p)
           THEN /\ req' = [req EXCEPT ![r].pc = "flushed", ![r].pid = p.id,
                                      ![r].pending = {p}]
                /\ nextId' = nextId + 1
                /\ products' = products
           ELSE /\ req' = [req EXCEPT ![r] = Respond(r, 500)]
                /\ nextId' = nextId
                /\ products' = RollbackProducts(r)
    /\ UNCHANGED <<inventory, ledger, now, lastQuery, prevQuery>>

\* lines 43-51, and lines 53-55 when the INSERT or the commit fails
CreateProductCommit(r) ==
    /\ req[r].pc = "flushed"
    /\ LET i == NewInventory(r)
       IN  IF InventoryInsertOk(r, i)
           THEN /\ products' = products \cup req[r].pending
                /\ inventory' = inventory \cup {i}
                /\ req' = [req EXCEPT ![r] = Respond(r, 201)]
                /\ lastQuery' = NoQuery
                /\ prevQuery' = NoQuery
           ELSE /\ products' = RollbackProducts(r)
                /\ inventory' = inventory
                /\ req' = [req EXCEPT ![r] = Respond(r, 500)]
                /\ UNCHANGED <<lastQuery, prevQuery>>
    /\ UNCHANGED <<ledger, now, nextId>>

(* ------------------------ get_low_stock_alerts ------------------------- *)

\* line 61: datetime.utcnow() - timedelta(days=30)
thirty_days_ago(t) == t - WindowDays

InWindowStrict(tx, t) == tx.created_at > thirty_days_ago(t)

\* lines 67 and 90: created_at >= thirty_days_ago
InWindow(tx, t) == tx.created_at >= thirty_days_ago(t)

RecentSalesIdsAnyReason(t) ==
    {ledger[i].product_id : i \in {j \in DOMAIN ledger : InWindow(ledger[j], t)}}

\* lines 64-68: the ids of the products with a sale in the window
recent_sales_ids(t) ==
    {ledger[i].product_id :
        i \in {j \in DOMAIN ledger : ledger[j].reason = "sale" /\ InWindow(ledger[j], t)}}

BelowThresholdAlways(inv, prod) == TRUE

\* line 78: Inventory.quantity <= Product.low_stock_threshold
BelowThreshold(inv, prod) == inv.quantity <= prod.low_stock_threshold

\* lines 71-80: the joined rows the query returns
AlertRows(company_id, t) ==
    {row \in VisibleInventory(Reader) \X VisibleProducts(Reader) \X Warehouses :
        /\ row[1].product_id = row[2].id
        /\ row[1].warehouse_id = row[3].id
        /\ row[2].company_id = company_id
        /\ BelowThreshold(row[1], row[2])
        /\ row[2].id \in recent_sales_ids(t)}

RECURSIVE SumAmounts(_)
SumAmounts(idx) ==
    IF idx = {} THEN 0
    ELSE LET i == CHOOSE j \in idx : TRUE
         IN  ledger[i].change_amount + SumAmounts(idx \ {i})

Abs(n) == IF n < 0 THEN -n ELSE n

\* lines 85-91: abs(sum(change_amount)) of the pair's sales in the window;
\* the sum of no rows is NULL, which "or 0" turns into 0
sales_sum(product_id, warehouse_id, t) ==
    LET idx == {j \in DOMAIN ledger :
                   /\ ledger[j].product_id = product_id
                   /\ ledger[j].warehouse_id = warehouse_id
                   /\ ledger[j].reason = "sale"
                   /\ InWindow(ledger[j], t)}
    IN  IF idx = {} THEN 0 ELSE Abs(SumAmounts(idx))

\* The pairs <<quantity, sales_sum>> with quantity <= 40 and sales_sum < 200
\* where the double quotient quantity / (sales_sum / 30) falls just below the
\* exact integer 30 * quantity / sales_sum, so that int() gives one less
\* (23 / (23 / 30) is 29.999999999999996).
RoundsBelow ==
    {<<23, 23>>, <<23, 46>>, <<31, 31>>, <<31, 62>>,
     <<33, 33>>, <<33, 66>>, <<35, 35>>, <<35, 70>>}

\* lines 93-94: daily_burn = sales_sum / 30 and int(quantity / daily_burn),
\* both in double arithmetic (the sum of an Integer column is a Python int)
days_out(quantity, sum) ==
    IF sum > 0
    THEN IF <<quantity, sum>> \in RoundsBelow
         THEN ((WindowDays * quantity) \div sum) - 1
         ELSE (WindowDays * quantity) \div sum
    ELSE NoRiskDays

\* lines 105-109: the outer join to Supplier
SupplierOf(prod) ==
    IF \E s \in Suppliers : s.id = prod.primary_supplier_id
    THEN LET s == CHOOSE x \in Suppliers : x.id = prod.primary_supplier_id
         IN  [id |-> s.id, name |-> s.name, contact_email |-> s.contact_email]
    ELSE [id |-> NullId, name |-> "N/A", contact_email |-> "N/A"]

\* lines 82-110: one record for each returned row; the order of the rows,
\* which the query leaves to the database, is not kept
Alerts(company_id, t) ==
    {[product_id |-> row[2].id,
      product_name |-> row[2].name,
      sku |-> row[2].sku,
      warehouse_id |-> row[3].id,
      warehouse_name |-> row[3].name,
      current_stock |-> row[1].quantity,
      threshold |-> row[2].low_stock_threshold,
      days_until_stockout |->
          days_out(row[1].quantity, sales_sum(row[2].id, row[3].id, t)),
      supplier |-> SupplierOf(row[2])] : row \in AlertRows(company_id, t)}

\* lines 58-112: the response of status 200; lastQuery and prevQuery keep the
\* last two responses for one company since the last write to the database
get_low_stock_alerts(company_id) ==
    /\ lastQuery' = [valid |-> TRUE, company |-> company_id, at |-> now,
                     alerts |-> Alerts(company_id, now),
                     total_alerts |-> Cardinality(Alerts(company_id, now))]
    /\ prevQuery' = IF lastQuery.valid /\ lastQuery.company = company_id
                    THEN lastQuery ELSE NoQuery
    /\ UNCHANGED <<products, inventory, ledger, now, nextId, req>>

(* ----------------------------- environment ----------------------------- *)

SaleAmounts == {-23, -7, 5}
RestockAmounts == {30}

\* a row appended to inventory_transactions; created_at defaults to utcnow
RecordTransaction(product_id, warehouse_id, change_amount, reason) ==
    /\ Len(ledger) < MaxTx
    /\ ledger' = Append(ledger,
                        [product_id |-> product_id,
                         warehouse_id |-> warehouse_id,
                         change_amount |-> change_amount,
                         reason |-> reason,
                         created_at |-> now])
    /\ lastQuery' = NoQuery
    /\ prevQuery' = NoQuery
    /\ UNCHANGED <<products, inventory, now, nextId, req>>

\* the instants the clock is looked at: day 0, and day WindowDays and after
ClockValues == {0} \cup {WindowDays + a : a \in 0..MaxAge}

\* time passes
Tick(t) ==
    /\ t > now
    /\ now' = t
    /\ UNCHANGED <<products, inventory, ledger, nextId, req, lastQuery, prevQuery>>

(* --------------------------- specifications ---------------------------- *)

IdleRequest == [pc |-> "idle", body |-> NoBody, status |-> 0, pid |-> NullId, pending |-> {}]

\* an empty catalogue
Init ==
    /\ products = {}
    /\ inventory = {}
    /\ ledger = << >>
    /\ now = 0
    /\ nextId = 1
    /\ req = [r \in Requests |-> IdleRequest]
    /\ lastQuery = NoQuery
    /\ prevQuery = NoQuery

Next ==
    \/ \E r \in Requests : \E b \in Bodies : CreateProductBegin(r, b)
    \/ \E r \in Requests : CreateProductFlush(r)
    \/ \E r \in Requests : CreateProductCommit(r)
    \/ \E c \in {x.id : x \in Companies} : get_low_stock_alerts(c)

Spec == Init /\ [][Next]_vars

SeedProducts ==
    {[id |-> 1, company_id |-> 1, name |-> "Bolt", sku |-> "S1", price |-> 250,
      low_stock_threshold |-> 30, primary_supplier_id |-> 1],
     [id |-> 2, company_id |-> 2, name |-> "Nut", sku |-> "S2", price |-> 100,
      low_stock_threshold |-> DefaultThreshold, primary_supplier_id |-> NullId]}

\* a catalogue of two products of two companies, stocked in three places
InitAlerts ==
    /\ products = SeedProducts
    /\ \E a \in {23, 30} :
          inventory = {[product_id |-> 1, warehouse_id |-> 1, quantity |-> a],
                       [product_id |-> 1, warehouse_id |-> 2, quantity |-> 35],
                       [product_id |-> 2, warehouse_id |-> 2, quantity |-> 5]}
    /\ ledger = << >>
    /\ now = 0
    /\ nextId = 3
    /\ req = [r \in Requests |-> IdleRequest]
    /\ lastQuery = NoQuery
    /\ prevQuery = NoQuery

NextAlerts ==
    \/ \E i \in inventory : \E a \in SaleAmounts :
          RecordTransaction(i.product_id, i.warehouse_id, a, "sale")
    \/ \E i \in inventory : \E a \in RestockAmounts :
          RecordTransaction(i.product_id, i.warehouse_id, a, "restock")
    \/ \E t \in ClockValues : Tick(t)
    \/ \E c \in {x.id : x \in Companies} : get_low_stock_alerts(c)

SpecAlerts == InitAlerts /\ [][NextAlerts]_vars

(* ------------------------- claims: create_product ---------------------- *)

Done(r) == req[r].pc = "done"

\* an input the specification calls valid: the required fields present, the
\* price a non-negative decimal, the initial quantity a non-negative integer
ValidInput(b) ==
    /\ \A f \in RequiredFields : b[f] # Absent
    /\ PyDecimal(b.price).exc = "none" /\ PyDecimal(b.price).v >= 0
    /\ PyInt(b.initial_quantity).exc = "none" /\ PyInt(b.initial_quantity).v >= 0

\* an input some validation rule of the specification rejects
InvalidInput(b) ==
    \/ \E f \in RequiredFields : b[f] = Absent
    \/ PyDecimal(b.price).exc # "none"
    \/ PyInt(b.initial_quantity).exc # "none"
    \/ PyDecimal(b.price).v < 0
    \/ PyInt(b.initial_quantity).v < 0

\* the rows the schema lets be inserted: a name, an existing company, an
\* existing warehouse
SchemaOk(b) ==
    /\ b.name.kind = "str"
    /\ \E c \in Companies : c.id = CompanyOf(b)
    /\ \E w \in Warehouses : w.id = b.warehouse_id.n

\* another request has created a product with the sku of request r
Rival(r) ==
    \E r2 \in Requests \ {r} :
        /\ req[r2].status = 201
        /\ req[r2].body.sku = req[r].body.sku

\* the response is 201 with the id of the one Product row of that sku, and
\* the one Inventory row of that product is in the requested warehouse with
\* the requested quantity
Created(r) ==
    LET b == req[r].body
    IN  /\ req[r].status = 201
        /\ Cardinality({p \in products : p.sku = b.sku.s}) = 1
        /\ \A p \in products : p.sku = b.sku.s => p.id = req[r].pid
        /\ Cardinality({i \in inventory : i.product_id = req[r].pid}) = 1
        /\ \A i \in inventory :
              i.product_id = req[r].pid =>
                  /\ i.warehouse_id = b.warehouse_id.n
                  /\ i.quantity = PyInt(b.initial_quantity).v

\* no committed row and no pending row comes from request r
NothingLeft(r) ==
    /\ req[r].pending = {}
    /\ req[r].pid # NullId =>
          /\ \A p \in products : p.id # req[r].pid
          /\ \A i \in inventory : i.product_id # req[r].pid

\* C1, as claimed: every request with a valid input and a SKU that passed the
\* check ends with 201, exactly one Product row and exactly one Inventory row
\* linked to it in the requested warehouse with quantity == initial_quantity.
C1_AsClaimed ==
    \A r \in Requests :
        (Done(r) /\ ValidInput(req[r].body) /\ req[r].status # 409) => Created(r)

\* C1, amended: the same for the valid inputs whose name is a string and whose
\* warehouse_id and company_id name existing rows, when no other request
\* creates a product of the same SKU.
C1_Create ==
    \A r \in Requests :
        (/\ Done(r)
         /\ ValidInput(req[r].body)
         /\ req[r].status # 409
         /\ SchemaOk(req[r].body)
         /\ ~Rival(r)) => Created(r)

C1_Witness ==
    \E r \in Requests :
        Done(r) /\ Created(r) /\ PyInt(req[r].body.initial_quantity).v = 30

\* C2: a request whose Product insert was flushed and that did not end with
\* 201 answers 500 and leaves neither its Product row nor an Inventory row.
C2_Atomic ==
    \A r \in Requests :
        (Done(r) /\ req[r].pid # NullId /\ req[r].status # 201) =>
            (req[r].status = 500 /\ NothingLeft(r))

C2_Witness ==
    \E r \in Requests :
        /\ Done(r) /\ req[r].pid # NullId /\ req[r].status = 500
        /\ ~(\E w \in Warehouses : w.id = req[r].body.warehouse_id.n)

\* C3: every Product row a session can read, other than a row that session
\* itself has flushed, has an Inventory row the same session can read.
C3_NoOrphanVisible ==
    \A v \in Requests \cup {Reader} :
        \A p \in VisibleProducts(v) \ PendingOf(v) :
            \E i \in VisibleInventory(v) : i.product_id = p.id

C3_Witness ==
    /\ lastQuery.valid
    /\ products # {}
    /\ \E r \in Requests : req[r].pc = "flushed" /\ req[r].pending # {}

\* C4: a request with an otherwise valid input whose SKU is the SKU of a
\* Product row answers 409, and no row is inserted or left pending.
C4_Conflict ==
    [][\A r \in Requests :
          (/\ req[r].pc = "idle"
           /\ req'[r].pc # "idle"
           /\ ValidInput(req'[r].body)
           /\ \E p \in products : p.sku = req'[r].body.sku.s) =>
              (/\ req'[r].pc = "done"
               /\ req'[r].status = 409
               /\ req'[r].pending = {}
               /\ products' = products
               /\ inventory' = inventory)]_vars

C4_Witness ==
    \E r \in Requests : Done(r) /\ req[r].status = 409 /\ products # {}

\* C5, as claimed: every request with a missing required field, or a price or
\* initial_quantity that is no number (null included) or is negative, answers
\* 400 and inserts nothing.
C5_AsClaimed ==
    \A r \in Requests :
        (Done(r) /\ InvalidInput(req[r].body)) =>
            (req[r].status = 400 /\ req[r].pid = NullId /\ NothingLeft(r))

\* C10: no two Product rows share a SKU; a request that did not end with 201
\* leaves no row; and a request with a well-formed input that answers 500 has
\* lost its SKU to another request after passing the SKU check.
C10_UniqueSku ==
    /\ \A p \in products : \A q \in products : p.sku = q.sku => p.id = q.id
    /\ \A r \in Requests : (Done(r) /\ req[r].status # 201) => NothingLeft(r)
    /\ \A r \in Requests :
          (/\ Done(r)
           /\ req[r].status = 500
           /\ ValidInput(req[r].body)
           /\ SchemaOk(req[r].body)) => Rival(r)

C10_Witness ==
    \E r \in Requests :
        /\ Done(r)
        /\ req[r].status = 500
        /\ ValidInput(req[r].body)
        /\ SchemaOk(req[r].body)
        /\ Rival(r)

(* ---------------------- claims: get_low_stock_alerts ------------------- *)

\* lastQuery and prevQuery are emptied by every write, so a response they
\* hold was computed from the tables as they are now.

\* the last response has an alert for this product in this warehouse
Alerted(product_id, warehouse_id) ==
    \E a \in lastQuery.alerts :
        a.product_id = product_id /\ a.warehouse_id = warehouse_id

\* the sales of a product, in any warehouse, dated in the 30 days before t
SalesWithin30Days(product_id, t) ==
    {j \in DOMAIN ledger :
        /\ ledger[j].product_id = product_id
        /\ ledger[j].reason = "sale"
        /\ ledger[j].created_at >= t - 30
        /\ ledger[j].created_at <= t}

RECURSIVE SumMagnitudes(_)
SumMagnitudes(idx) ==
    IF idx = {} THEN 0
    ELSE LET i == CHOOSE j \in idx : TRUE
         IN  (IF ledger[i].change_amount < 0
              THEN -ledger[i].change_amount
              ELSE ledger[i].change_amount) + SumMagnitudes(idx \ {i})

\* S of the claim: the sum of the absolute values of the sale amounts of one
\* product in one warehouse in the 30 days before t
SaleMagnitude(product_id, warehouse_id, t) ==
    SumMagnitudes({j \in SalesWithin30Days(product_id, t) :
                      ledger[j].warehouse_id = warehouse_id})

\* C6: no Inventory row whose quantity is above its product's threshold has
\* an alert in the response, whatever sales the product has.
C6_AboveThresholdExcluded ==
    lastQuery.valid =>
        \A i \in inventory : \A p \in products :
            (p.id = i.product_id /\ i.quantity > p.low_stock_threshold) =>
                ~Alerted(i.product_id, i.warehouse_id)

C6_Witness ==
    /\ lastQuery.valid
    /\ lastQuery.alerts # {}
    /\ \E i \in inventory : \E p \in products :
          /\ p.id = i.product_id
          /\ p.company_id = lastQuery.company
          /\ i.quantity > p.low_stock_threshold
          /\ SaleMagnitude(i.product_id, i.warehouse_id, lastQuery.at) > 0

\* C7: an Inventory row at or below its product's threshold has no alert in
\* the response when the product has no sale dated in the 30 days before the
\* query (a restock, or a sale older than that, does not count).
C7_NoRecentSaleExcluded ==
    lastQuery.valid =>
        \A i \in inventory : \A p \in products :
            (/\ p.id = i.product_id
             /\ i.quantity <= p.low_stock_threshold
             /\ SalesWithin30Days(p.id, lastQuery.at) = {}) =>
                ~Alerted(i.product_id, i.warehouse_id)

C7_Witness ==
    /\ lastQuery.valid
    /\ \E i \in inventory : \E p \in products :
          /\ p.id = i.product_id
          /\ p.company_id = lastQuery.company
          /\ i.quantity <= p.low_stock_threshold
          /\ SalesWithin30Days(p.id, lastQuery.at) = {}
          /\ \E j \in DOMAIN ledger :
                ledger[j].product_id = p.id /\ ledger[j].reason = "restock"
          /\ \E j \in DOMAIN ledger :
                ledger[j].product_id = p.id /\ ledger[j].reason = "sale"

\* C8, as claimed: every alert has days_until_stockout ==
\* floor(quantity / (S / 30)) when S > 0 and 999 when S == 0, S being the sum
\* of the absolute values of the pair's sale amounts in the window.
C8_AsClaimed ==
    lastQuery.valid =>
        \A a \in lastQuery.alerts :
            LET S == SaleMagnitude(a.product_id, a.warehouse_id, lastQuery.at)
            IN  a.days_until_stockout =
                    IF S > 0 THEN (30 * a.current_stock) \div S ELSE 999

\* C9, as claimed: two responses for one company with no write between them
\* are the same, whatever the two query times.
C9_AsClaimed ==
    (lastQuery.valid /\ prevQuery.valid) =>
        /\ lastQuery.alerts = prevQuery.alerts
        /\ lastQuery.total_alerts = prevQuery.total_alerts

\* no sale is dated on or after the start of the earlier query's window and
\* before the start of the later query's window
NoSaleLeftWindow ==
    \A j \in DOMAIN ledger :
        ledger[j].reason = "sale" =>
            ~(/\ ledger[j].created_at >= prevQuery.at - 30
              /\ ledger[j].created_at < lastQuery.at - 30)

\* C9, amended: two responses for one company with no write between them are
\* the same when no sale has left the 30-day window between the two query
\* times; and the query writes nothing.
C9_Idempotent ==
    /\ [](lastQuery.valid /\ prevQuery.valid /\ NoSaleLeftWindow =>
             /\ lastQuery.alerts = prevQuery.alerts
             /\ lastQuery.total_alerts = prevQuery.total_alerts)
    /\ [][(lastQuery'.valid /\ lastQuery' # lastQuery) =>
             UNCHANGED <<products, inventory, ledger>>]_vars

C9_Witness ==
    /\ lastQuery.valid
    /\ prevQuery.valid
    /\ prevQuery.at < lastQuery.at
    /\ NoSaleLeftWindow
    /\ lastQuery.alerts # {}
    /\ \E j \in DOMAIN ledger :
          ledger[j].reason = "sale" /\ ledger[j].created_at = lastQuery.at - 30

====
